---------------------------- MODULE Spec2Model ----------------------------
(***************************************************************************)
(* The two homework notebooks as state machines over the kernel's global   *)
(* namespace.  A code cell is an action; the globals it assigns are the    *)
(* variables.                                                              *)
(*                                                                         *)
(* Numbers.  Python floats are modelled by exact values:                   *)
(*   - a rational is <<n, d>> with d > 0 in lowest terms;                  *)
(*   - a complex number with integer parts is <<re, im>>;                  *)
(*   - a value z / sqrt(r), z an integer (or complex integer) and r a      *)
(*     positive rational, is the pair <<z, r>> ("surd").  Unit vectors     *)
(*     and everything divided by np.sqrt(..) have this form.               *)
(* Arrays are functions on 0 .. n-1, as in numpy.                          *)
(***************************************************************************)
EXTENDS Integers, Sequences, FiniteSets, TLC

(***************************************************************************)
(* Bounds of the model.                                                    *)
(***************************************************************************)
MaxN == 3          \* grid points N range over 2 .. MaxN
MaxL == 4          \* box lengths L range over 1 .. MaxL
MaxW == 2          \* barrier widths w range over 0 .. MaxW
EigK == 2          \* eigenvector directions have integer entries in -EigK .. EigK

(***************************************************************************)
(* Exact rational arithmetic.                                              *)
(***************************************************************************)
Abs(x) == IF x < 0 THEN -x ELSE x

RECURSIVE GCD(_, _)
GCD(x, y) == IF y = 0 THEN x ELSE GCD(y, x % y)

Rat(n, d) ==
    LET g == GCD(Abs(n), Abs(d))
        s == IF d < 0 THEN -1 ELSE 1
    IN  <<(s * n) \div g, (s * d) \div g>>

RInt(n) == <<n, 1>>
\* (denominators are combined through their gcd to keep the integers small)
RAdd(x, y) ==
    LET g == GCD(x[2], y[2])
    IN  Rat(x[1] * (y[2] \div g) + y[1] * (x[2] \div g), (x[2] \div g) * y[2])
RNeg(x) == <<-x[1], x[2]>>
RSub(x, y) == RAdd(x, RNeg(y))
RMul(x, y) ==
    LET g1 == GCD(Abs(x[1]), y[2])
        g2 == GCD(Abs(y[1]), x[2])
    IN  Rat((x[1] \div g1) * (y[1] \div g2), (x[2] \div g2) * (y[2] \div g1))
RInv(x) == IF x[1] < 0 THEN <<-x[2], -x[1]>> ELSE <<x[2], x[1]>>
RDiv(x, y) == RMul(x, RInv(y))
RLe(x, y) == RSub(x, y)[1] <= 0
RLt(x, y) == RSub(x, y)[1] < 0
RAbs(x) == <<Abs(x[1]), x[2]>>
RZero == <<0, 1>>
ROne == <<1, 1>>

RECURSIVE RSum(_, _)
\* sum of f[0] .. f[n-1]
RSum(f, n) == IF n = 0 THEN RZero ELSE RAdd(RSum(f, n - 1), f[n - 1])


(***************************************************************************)
(* Surds  z / sqrt(r).                                                     *)
(***************************************************************************)
\* |z / sqrt(r)|^2 = z^2 / r for a real z
SAbsSq(s) == RDiv(RInt(s[1] * s[1]), s[2])
\* (z / sqrt(r)) / sqrt(x)
SDivSqrt(s, x) == <<s[1], RMul(s[2], x)>>
\* equality of the values of two real surds
SEq(s, u) ==
    /\ (s[1] > 0) = (u[1] > 0)
    /\ (s[1] < 0) = (u[1] < 0)
    /\ RMul(RInt(s[1] * s[1]), u[2]) = RMul(RInt(u[1] * u[1]), s[2])

(***************************************************************************)
(* The kernel's globals (HW2_quantum_phenomena.ipynb) and the position in  *)
(* the notebook.                                                           *)
(***************************************************************************)
VARIABLES
    pc,        \* the last cell (or statement) executed
    N, L, w,   \* grid points, box length, barrier width
    Vdef,      \* which def V(x) is bound to the global name V
    eta, m, q, \* physical parameters
    X, a,      \* grid and grid spacing
    t, eps,    \* hopping term and on-site energies
    H,         \* discretized hamiltonian
    vals, vecs,\* eigenvalues and eigenvectors
    eigret,    \* what np.linalg.eig returned last (history)
    p, B, barrier

solveVars == <<N, L, w, Vdef, eta, m, q, X, a, t, eps, H, vals, vecs, eigret,
               p, B, barrier>>

(***************************************************************************)
(* The globals of the superposition section of the same notebook.          *)
(***************************************************************************)
VARIABLES
    cutoff, psi, E, \* levels kept, their eigenfunctions and energies
    coeff,          \* coefficients of the superposition
    coeffset,       \* coeff as the coefficient cell left it (history)
    norm,
    raised,         \* the exception that left the last cell, or "none"
    out,            \* what the cells printed, in order
    timestep, num_step,
    evolution,      \* the generator evolve(..): its arguments and locals
    data,           \* the pair the generator yielded last
    shown           \* what run(data) put on the figure

superVars == <<cutoff, psi, E, coeff, coeffset, norm, raised, out,
               timestep, num_step, evolution, data, shown>>

(***************************************************************************)
(* The globals of HW4_cats_and_qubits.ipynb.                               *)
(***************************************************************************)
VARIABLES
    qc,             \* the QuantumCircuit: number of qubits and instructions
    bitstrings,     \* data.meas.get_bitstrings()
    counts, probs, total_prob,
    backend,            \* FakeSherbrooke()
    transpiled_circuit, \* transpile(qc, backend)
    job                 \* backend.run(..): the circuit it was given, its shots

noisyVars == <<backend, transpiled_circuit, job>>

circVars == <<qc, bitstrings, counts, probs, total_prob, noisyVars>>

vars == <<pc, solveVars, superVars, circVars>>

Unset == <<>>

Masses == {1, 10}             \* values of m the parameter cell may be given
BarrierHeight == <<1, 20>>    \* 0.05
HarmonicK == <<1, 1000>>      \* 0.001

Idx(n) == 0 .. (n - 1)
ALen(x) == Cardinality(DOMAIN x)

(***************************************************************************)
(* numpy helpers, as the cells use them.                                   *)
(***************************************************************************)
\* np.linspace(0, l, num=n) - l/2
Linspace(l, n) ==
    [i \in Idx(n) |->
        RSub(RMul(RInt(i), RDiv(RInt(l), RInt(n - 1))), RDiv(RInt(l), RInt(2)))]

\* np.eye(n, k=k)
Eye(n, k) == [i \in Idx(n) |-> [j \in Idx(n) |-> IF j = i + k THEN 1 ELSE 0]]

\* def V(x) of the first section: 0.05 where |x| <= w/2, else 0
VBarrierStrict(x, width) ==
    [i \in Idx(ALen(x)) |->
        IF RLt(RAbs(x[i]), RDiv(RInt(width), RInt(2))) THEN BarrierHeight ELSE RZero]

VBarrier(x, width) ==
    [i \in Idx(ALen(x)) |->
        IF RLe(RAbs(x[i]), RDiv(RInt(width), RInt(2))) THEN BarrierHeight ELSE RZero]

\* def V(x) of the superposition section: 0.001 * x**2
VHarmonic(x) == [i \in Idx(ALen(x)) |-> RMul(HarmonicK, RMul(x[i], x[i]))]

\* a call V(x): the def the global name V is bound to now, reading the global w
V(x) == IF Vdef = "barrier" THEN VBarrier(x, w) ELSE VHarmonic(x)

\* a = X[1] - X[0]
Spacing(x) == RSub(x[1], x[0])

\* t = -eta**2 / (2 * m * a**2)
Hopping(h, mass, da) ==
    RDiv(RNeg(RInt(h * h)), RMul(RInt(2 * mass), RMul(da, da)))

\* eps = -2*t + q * V(X)
OnSite(hop, charge, vx) ==
    [i \in Idx(ALen(vx)) |-> RAdd(RMul(RInt(-2), hop), RMul(RInt(charge), vx[i]))]

\* t*np.eye(N, k=-1) + eps*np.eye(N) + t*np.eye(N, k=1); eps broadcasts
\* along the last axis, so entry [i][j] of the middle term is eps[j]*eye[i][j]
HamiltonianUpperOnly(n, hop, e) ==
    [i \in Idx(n) |-> [j \in Idx(n) |->
        RAdd(RAdd(RMul(hop, RInt(Eye(n, 1)[i][j])),
                  RMul(e[j], RInt(Eye(n, 0)[i][j]))),
             RMul(hop, RInt(Eye(n, 1)[i][j])))]]

Hamiltonian(n, hop, e) ==
    [i \in Idx(n) |-> [j \in Idx(n) |->
        RAdd(RAdd(RMul(hop, RInt(Eye(n, -1)[i][j])),
                  RMul(e[j], RInt(Eye(n, 0)[i][j]))),
             RMul(hop, RInt(Eye(n, 1)[i][j])))]]

(***************************************************************************)
(* np.linalg.eig.  Its contract: w[j] is an eigenvalue, the column         *)
(* v[:, j] is a unit-length eigenvector for it, the columns are linearly   *)
(* independent, and the order of the pairs is not specified.  The model    *)
(* returns every such answer whose eigenvector directions have integer     *)
(* entries in -EigK .. EigK; a matrix with no such answer (irrational      *)
(* eigenpairs) is outside the model and the solve stops there.             *)
(***************************************************************************)
RECURSIVE ISum(_, _)
ISum(f, n) == IF n = 0 THEN 0 ELSE ISum(f, n - 1) + f[n - 1]

Dot(u, v, n) == ISum([i \in Idx(n) |-> u[i] * v[i]], n)

\* (M u)[i] for a rational matrix M and an integer vector u
MatVec(M, u, n) ==
    [i \in Idx(n) |-> RSum([j \in Idx(n) |-> RMul(M[i][j], RInt(u[j]))], n)]

\* the eigenvalue of the eigenvector u
Rayleigh(M, u, n) ==
    RDiv(RSum([i \in Idx(n) |-> RMul(RInt(u[i]), MatVec(M, u, n)[i])], n),
         RInt(Dot(u, u, n)))

RECURSIVE GCDAll(_, _)
GCDAll(u, n) == IF n = 0 THEN 0 ELSE GCD(GCDAll(u, n - 1), Abs(u[n - 1]))

LCM(x, y) == (x \div GCD(x, y)) * y

RECURSIVE LCMDen(_, _, _)
\* the least common denominator of the first k entries (row by row) of M
LCMDen(M, n, k) ==
    IF k = 0 THEN 1
    ELSE LCM(LCMDen(M, n, k - 1), M[(k - 1) \div n][(k - 1) % n][2])

\* M u = lambda u for some lambda, tested on the integer matrix D*M:
\* (M u)[i] * u[k] = (M u)[k] * u[i] for an index k with u[k] # 0
IsEigvecInt(Mi, u, n) ==
    LET mv == [i \in Idx(n) |-> ISum([j \in Idx(n) |-> Mi[i][j] * u[j]], n)]
        k == CHOOSE kk \in Idx(n) : u[kk] # 0
    IN  \A i \in Idx(n) : mv[i] * u[k] = mv[k] * u[i]

\* eigenvector directions: one integer vector per line through the origin
\* and its opposite
Dirs(n) == {u \in [Idx(n) -> (-EigK) .. EigK] : GCDAll(u, n) = 1}

EigDirs(M, n) ==
    LET D == LCMDen(M, n, n * n)
        Mi == [i \in Idx(n) |-> [j \in Idx(n) |-> M[i][j][1] * (D \div M[i][j][2])]]
    IN  {u \in Dirs(n) : IsEigvecInt(Mi, u, n)}

Perms(n) == {f \in [Idx(n) -> Idx(n)] : \A i, j \in Idx(n) : i # j => f[i] # f[j]}

RECURSIVE Cofactor(_, _, _, _)
\* expansion along column j over the rows not yet used; todo is what is
\* left of rows to visit at this level
Cofactor(us, j, rows, todo) ==
    IF rows = {} THEN 1
    ELSE IF todo = {} THEN 0
    ELSE LET r == CHOOSE x \in todo : TRUE
             sgn == IF Cardinality({x \in rows : x < r}) % 2 = 0 THEN 1 ELSE -1
         IN  (IF us[j][r] = 0 THEN 0
              ELSE sgn * us[j][r] * Cofactor(us, j + 1, rows \ {r}, rows \ {r}))
             + Cofactor(us, j, rows, todo \ {r})

\* determinant of the matrix whose column j is us[j]
Det(us, n) == Cofactor(us, 0, Idx(n), Idx(n))

Eig(M, n) ==
    LET ed == EigDirs(M, n) IN
    { [vals |-> [j \in Idx(n) |-> Rayleigh(M, us[j], n)],
       vecs |-> [i \in Idx(n) |-> [j \in Idx(n) |->
                    <<us[j][i], RInt(Dot(us[j], us[j], n))>>]]] :
      us \in {c \in [Idx(n) -> ed] : Det(c, n) # 0} }

(***************************************************************************)
(* The sort cell: order = np.argsort(vals); vals, vecs = vals[order],      *)
(* vecs[:, order]; vecs = vecs.T; vecs /= np.sqrt(a).                      *)
(***************************************************************************)
\* np.argsort: a permutation that sorts; ties in no specified order
ArgSortNone(v) == {[i \in Idx(ALen(v)) |-> i]}

ArgSort(v) ==
    {f \in Perms(ALen(v)) :
        \A i, j \in Idx(ALen(v)) : i < j => RLe(v[f[i]], v[f[j]])}

\* v[order]
Take(v, order) == [i \in Idx(ALen(v)) |-> v[order[i]]]

\* M[order, :]
TakeRows(M, order) == [i \in Idx(ALen(M)) |-> M[order[i]]]

\* M[:, order]
TakeCols(M, order) ==
    [i \in Idx(ALen(M)) |-> [j \in Idx(ALen(M)) |-> M[i][order[j]]]]

\* M.T
Transpose(M) == [i \in Idx(ALen(M)) |-> [j \in Idx(ALen(M)) |-> M[j][i]]]

\* M /= x  (the mistake of dividing by a instead of np.sqrt(a))
DivPlain(M, x) ==
    [i \in Idx(ALen(M)) |-> [j \in Idx(ALen(M)) |-> SDivSqrt(M[i][j], RMul(x, x))]]

\* M /= np.sqrt(x)
DivSqrt(M, x) ==
    [i \in Idx(ALen(M)) |-> [j \in Idx(ALen(M)) |-> SDivSqrt(M[i][j], x)]]

\* p = np.abs(vecs)**2
Density(M) == [i \in Idx(ALen(M)) |-> [j \in Idx(ALen(M)) |-> SAbsSq(M[i][j])]]

\* B = V(X) != 0
Mask(vx) == [j \in Idx(ALen(vx)) |-> vx[j] # RZero]

\* a * p[:, B].sum(-1)
BarrierProb(da, dens, mask) ==
    [i \in Idx(ALen(dens)) |->
        RMul(da, RSum([j \in Idx(ALen(mask)) |->
                          IF mask[j] THEN dens[i][j] ELSE RZero], ALen(mask)))]

(***************************************************************************)
(* The values a parameter cell may be given.  The notebook ships with      *)
(* N = 300 (200 in the harmonic cell), L = 100, w = 30, eta = m = q = 1    *)
(* and invites the reader to change them.                                  *)
(***************************************************************************)
Ns == 2 .. MaxN
Ls == 1 .. MaxL
Ws == 0 .. MaxW
Etas == {1, 2}
Charges == {1, 2}

SolveFresh ==
    /\ N = 0 /\ L = 0 /\ w = 0 /\ Vdef = "none"
    /\ eta = 0 /\ m = 0 /\ q = 0
    /\ X = Unset /\ a = Unset /\ t = Unset /\ eps = Unset /\ H = Unset
    /\ vals = Unset /\ vecs = Unset /\ eigret = Unset
    /\ p = Unset /\ B = Unset /\ barrier = Unset

SuperFresh ==
    /\ cutoff = 0 /\ psi = Unset /\ E = Unset
    /\ coeff = Unset /\ coeffset = Unset /\ norm = Unset
    /\ raised = "none" /\ out = <<>>
    /\ timestep = 0 /\ num_step = 0
    /\ evolution = Unset /\ data = Unset /\ shown = Unset

CircFresh ==
    /\ qc = Unset /\ bitstrings = Unset /\ counts = Unset
    /\ probs = Unset /\ total_prob = Unset
    /\ backend = Unset /\ transpiled_circuit = Unset /\ job = Unset

\* a fresh kernel: the import cell has run and nothing else
Init == pc = "start" /\ SolveFresh /\ SuperFresh /\ CircFresh

\* N = 300; L = 100; w = 30; def V(x): ...; eta = 1; m = 1; q = 1
ParamsCell ==
    /\ pc = "start"
    /\ pc' = "params"
    /\ N' \in Ns /\ L' \in Ls /\ w' \in Ws
    /\ Vdef' = "barrier"
    /\ eta' \in Etas /\ m' \in Masses /\ q' \in Charges
    /\ UNCHANGED <<X, a, t, eps, H, vals, vecs, eigret, p, B, barrier>>
    /\ UNCHANGED <<superVars, circVars>>

\* X = np.linspace(0,L,num=N) - L/2; a = X[1] - X[0]; t = ...; eps = ...
GridCell ==
    /\ pc = "params"
    /\ pc' = "grid"
    /\ X' = Linspace(L, N)
    /\ a' = Spacing(X')
    /\ t' = Hopping(eta, m, a')
    /\ eps' = OnSite(t', q, V(X'))
    /\ UNCHANGED <<N, L, w, Vdef, eta, m, q, H, vals, vecs, eigret, p, B, barrier>>
    /\ UNCHANGED <<superVars, circVars>>

\* H = t*np.eye(N, k=-1) + eps*np.eye(N) + t*np.eye(N, k=1)
HamiltonianCell ==
    /\ pc = "grid"
    /\ pc' = "ham"
    /\ H' = Hamiltonian(N, t, eps)
    /\ UNCHANGED <<N, L, w, Vdef, eta, m, q, X, a, t, eps, vals, vecs, eigret,
                   p, B, barrier>>
    /\ UNCHANGED <<superVars, circVars>>

\* vals, vecs = np.linalg.eig(H)
EigCell ==
    /\ pc = "ham"
    /\ pc' = "eig"
    /\ LET rs == Eig(H, N) IN
         IF rs = {}
           THEN eigret' = Unset /\ vals' = Unset /\ vecs' = Unset
           ELSE \E r \in rs :
                   eigret' = r /\ vals' = r.vals /\ vecs' = r.vecs
    /\ UNCHANGED <<N, L, w, Vdef, eta, m, q, X, a, t, eps, H, p, B, barrier>>
    /\ UNCHANGED <<superVars, circVars>>

\* order = np.argsort(vals); vals, vecs = vals[order], vecs[:, order]
\* vecs = vecs.T; vecs /= np.sqrt(a)
SortCell ==
    /\ pc = "eig"
    /\ vals # Unset
    /\ pc' = "sorted"
    /\ \E order \in ArgSort(vals) :
          /\ vals' = Take(vals, order)
          /\ vecs' = DivSqrt(Transpose(TakeCols(vecs, order)), a)
    /\ UNCHANGED <<N, L, w, Vdef, eta, m, q, X, a, t, eps, H, eigret, p, B, barrier>>
    /\ UNCHANGED <<superVars, circVars>>

\* p = np.abs(vecs)**2
DensityCell ==
    /\ pc = "sorted"
    /\ pc' = "density"
    /\ p' = Density(vecs)
    /\ UNCHANGED <<N, L, w, Vdef, eta, m, q, X, a, t, eps, H, vals, vecs, eigret,
                   B, barrier>>
    /\ UNCHANGED <<superVars, circVars>>

\* B = V(X) != 0; barrier = a * p[:, B].sum(-1)
BarrierCell ==
    /\ pc = "density"
    /\ pc' = "barrier"
    /\ B' = Mask(V(X))
    /\ barrier' = BarrierProb(a, p, B')
    /\ UNCHANGED <<N, L, w, Vdef, eta, m, q, X, a, t, eps, H, vals, vecs, eigret, p>>
    /\ UNCHANGED <<superVars, circVars>>

\* the harmonic cell: N = 200; L = 100; def V(x): return 0.001 * x**2; ...
\* down to vecs /= np.sqrt(a), all in one cell
HarmonicSolveCell ==
    /\ pc = "start"
    /\ pc' = "harmonic"
    /\ N' \in Ns /\ L' \in Ls
    /\ Vdef' = "harmonic"
    /\ eta' \in Etas /\ m' \in Masses /\ q' \in Charges
    /\ X' = Linspace(L', N')
    /\ a' = Spacing(X')
    /\ t' = Hopping(eta', m', a')
    /\ eps' = OnSite(t', q', VHarmonic(X'))
    /\ H' = Hamiltonian(N', t', eps')
    /\ LET rs == Eig(H', N') IN
         IF rs = {}
           THEN eigret' = Unset /\ vals' = Unset /\ vecs' = Unset
           ELSE \E r \in rs : \E order \in ArgSort(r.vals) :
                   /\ eigret' = r
                   /\ vals' = Take(r.vals, order)
                   /\ vecs' = DivSqrt(Transpose(TakeCols(r.vecs, order)), a')
    /\ UNCHANGED <<w, p, B, barrier>>
    /\ UNCHANGED <<superVars, circVars>>

SolveNext ==
    \/ ParamsCell
    \/ GridCell
    \/ HamiltonianCell
    \/ EigCell
    \/ SortCell
    \/ DensityCell
    \/ BarrierCell
    \/ HarmonicSolveCell

SpecSolve == Init /\ [][SolveNext]_vars

(***************************************************************************)
(* The superposition section.  Complex numbers with integer parts are      *)
(* <<re, im>>; a coefficient is a surd <<z, r>> with such a z.  Energies   *)
(* are counted in units of pi/2 (over eta, per unit of time), so that      *)
(* np.exp(-1j * E / eta * t) is a power of -i and stays exact.             *)
(***************************************************************************)
MaxCutoff == 2     \* cutoff ranges over 1 .. MaxCutoff (20 in the notebook)
MaxE == 3          \* energies range over 1 .. MaxE
MaxTimestep == 2   \* timestep ranges over 1 .. MaxTimestep (1 in the notebook)
MaxSteps == 2      \* num_step, the number of frames (300 in the notebook)
Grid == 4          \* grid points kept of each eigenfunction in psi

HarmonicN == 200
HarmonicL == 100

CMul(y, z) == <<y[1] * z[1] - y[2] * z[2], y[1] * z[2] + y[2] * z[1]>>
CAdd(y, z) == <<y[1] + z[1], y[2] + z[2]>>
CAbsSq(z) == z[1] * z[1] + z[2] * z[2]

RECURSIVE CSum(_, _)
CSum(f, n) == IF n = 0 THEN <<0, 0>> ELSE CAdd(CSum(f, n - 1), f[n - 1])

\* the values a coefficient may be set to
CoeffVals == {<<0, 0>>, <<1, 0>>, <<0, 1>>, <<-2, 0>>}

\* orthogonal directions on the kept grid points, each of squared length Grid
Basis ==
    <<[x \in Idx(Grid) |-> 1],
      [x \in Idx(Grid) |-> IF x % 2 = 0 THEN 1 ELSE -1],
      [x \in Idx(Grid) |-> IF x % 4 < 2 THEN 1 ELSE -1],
      [x \in Idx(Grid) |-> IF x % 4 \in {0, 3} THEN 1 ELSE -1]>>

\* what vecs[:k] can be: k orthogonal rows of squared length 1/a
PsiChoices(k, da) ==
    { [n \in Idx(k) |-> [x \in Idx(Grid) |->
          <<Basis[sel[n] + 1][x], RMul(RInt(Grid), da)>>]] :
      sel \in {f \in [Idx(k) -> Idx(4)] : \A i, j \in Idx(k) : i < j => f[i] < f[j]} }

\* what vals[:k] can be: k energies in increasing order
EChoices(k) ==
    {f \in [Idx(k) -> 1 .. MaxE] : \A i, j \in Idx(k) : i < j => f[i] < f[j]}

\* (np.abs(coeff)**2).sum()
NormOf(c) == RSum([i \in Idx(ALen(c)) |-> RDiv(RInt(CAbsSq(c[i][1])), c[i][2])], ALen(c))

\* assert norm > 0
AssertHoldsWeak(nrm) == RLe(RZero, nrm)

AssertHolds(nrm) == RLt(RZero, nrm)

\* coeff /= norm  (the mistake of leaving out np.sqrt)
NormalizePlain(c, nrm) ==
    [i \in Idx(ALen(c)) |-> <<c[i][1], RMul(c[i][2], RMul(nrm, nrm))>>]

\* coeff /= np.sqrt(norm)
Normalize(c, nrm) == [i \in Idx(ALen(c)) |-> <<c[i][1], RMul(c[i][2], nrm)>>]

\* np.exp(-1j * k * pi/2) = (-i)^k
ExpQuarter(k) ==
    CASE k % 4 = 0 -> <<1, 0>>
      [] k % 4 = 1 -> <<0, -1>>
      [] k % 4 = 2 -> <<-1, 0>>
      [] k % 4 = 3 -> <<0, 1>>

\* coeff * np.exp(- 1j * E / eta * t)
EvolveCoeff(c, en, h, tt) ==
    [n \in Idx(ALen(c)) |->
        <<CMul(c[n][1], ExpQuarter((en[n] * tt) \div h)), c[n][2]>>]

\* c @ psi; the entries of c share one radicand and so do those of ps
MatMul(c, ps) ==
    [x \in Idx(Grid) |->
        <<CSum([n \in Idx(ALen(c)) |->
                   <<c[n][1][1] * ps[n][x][1], c[n][1][2] * ps[n][x][1]>>], ALen(c)),
          RMul(c[0][2], ps[0][x][2])>>]

ErrMsg == "Error: Norm is zero, you must set the coeffients to nonzero"

\* the harmonic cell as the notebook ships it: N = 200; L = 100; eta = m =
\* q = 1; X, a, t.  On this grid eps, H and the eigenpairs are beyond exact
\* evaluation here and stay unset; the cells below draw psi and E instead.
HarmonicCell ==
    /\ pc = "start"
    /\ pc' = "harmonic"
    /\ N' = HarmonicN /\ L' = HarmonicL
    /\ Vdef' = "harmonic"
    /\ eta' = 1 /\ m' = 1 /\ q' = 1
    /\ X' = Linspace(L', N')
    /\ a' = Spacing(X')
    /\ t' = Hopping(eta', m', a')
    /\ UNCHANGED <<w, eps, H, vals, vecs, eigret, p, B, barrier>>
    /\ UNCHANGED <<superVars, circVars>>

\* cutoff = 20; psi = vecs[:cutoff]; E = vals[:cutoff]; coeff = np.zeros(..);
\* coeff[4] = 1; coeff[0] = 1j; coeff[3] = -2.5
CoeffCell ==
    /\ pc = "harmonic"
    /\ pc' = "coeff"
    /\ cutoff' \in 1 .. MaxCutoff
    /\ psi' \in PsiChoices(cutoff', a)
    /\ E' \in EChoices(cutoff')
    /\ coeff' \in [Idx(cutoff') -> {<<z, ROne>> : z \in CoeffVals}]
    /\ coeffset' = coeff'
    /\ UNCHANGED <<norm, raised, out, timestep, num_step, evolution, data, shown>>
    /\ UNCHANGED <<solveVars, circVars>>

\* try: norm = (np.abs(coeff)**2).sum()
NormTry ==
    /\ pc = "coeff"
    /\ pc' = "norm"
    /\ norm' = NormOf(coeff)
    /\ UNCHANGED <<cutoff, psi, E, coeff, coeffset, raised, out,
                   timestep, num_step, evolution, data, shown>>
    /\ UNCHANGED <<solveVars, circVars>>

\* assert norm > 0 holds; coeff /= np.sqrt(norm)
NormDivide ==
    /\ pc = "norm"
    /\ AssertHolds(norm)
    /\ pc' = "divided"
    /\ coeff' = Normalize(coeff, norm)
    /\ UNCHANGED <<cutoff, psi, E, coeffset, norm, raised, out,
                   timestep, num_step, evolution, data, shown>>
    /\ UNCHANGED <<solveVars, circVars>>

\* assert norm > 0 fails
NormAssertFails ==
    /\ pc = "norm"
    /\ ~AssertHolds(norm)
    /\ pc' = "raised"
    /\ raised' = "AssertionError"
    /\ UNCHANGED <<cutoff, psi, E, coeff, coeffset, norm, out,
                   timestep, num_step, evolution, data, shown>>
    /\ UNCHANGED <<solveVars, circVars>>

\* except AssertionError: print('Error: Norm is zero, ...')
NormExcept ==
    /\ pc = "raised"
    /\ raised = "AssertionError"
    /\ pc' = "caught"
    /\ raised' = "none"
    /\ out' = Append(out, ErrMsg)
    /\ UNCHANGED <<cutoff, psi, E, coeff, coeffset, norm,
                   timestep, num_step, evolution, data, shown>>
    /\ UNCHANGED <<solveVars, circVars>>

\* print('\nCoeffients:', coeff)
NormPrint ==
    /\ pc \in {"divided", "caught"}
    /\ pc' = "normalized"
    /\ out' = Append(out, <<"Coeffients:", coeff>>)
    /\ UNCHANGED <<cutoff, psi, E, coeff, coeffset, norm, raised,
                   timestep, num_step, evolution, data, shown>>
    /\ UNCHANGED <<solveVars, circVars>>

\* timestep = 1; num_step = 300; evolution = evolve(coeff, psi, E, ..);
\* wave = (coeff @ psi) is plotted, the title carries no time yet
AnimCell ==
    /\ pc = "normalized"
    /\ pc' = "anim"
    /\ timestep' \in 1 .. MaxTimestep
    /\ num_step' = MaxSteps
    /\ evolution' = [coeff |-> coeff, psi |-> psi, E |-> E,
                     timestep |-> timestep', num_step |-> num_step',
                     t |-> 0, cnt |-> 0]
    /\ shown' = [timed |-> FALSE, t |-> 0, wave |-> MatMul(coeff, psi)]
    /\ UNCHANGED <<cutoff, psi, E, coeff, coeffset, norm, raised, out, data>>
    /\ UNCHANGED <<solveVars, circVars>>

\* one next(evolution): the body of the while loop of evolve up to its yield
EvolveNext ==
    /\ pc \in {"anim", "ran"}
    /\ ALen(evolution.coeff) = ALen(evolution.psi)
    /\ ALen(evolution.psi) = ALen(evolution.E)
    /\ evolution.cnt < evolution.num_step
    /\ pc' = "yielded"
    /\ LET c == EvolveCoeff(evolution.coeff, evolution.E, eta, evolution.t)
       IN  /\ evolution' = [evolution EXCEPT !.cnt = @ + 1,
                                             !.t = @ + evolution.timestep]
           /\ data' = <<evolution'.t, MatMul(c, evolution.psi)>>
    /\ UNCHANGED <<cutoff, psi, E, coeff, coeffset, norm, raised, out,
                   timestep, num_step, shown>>
    /\ UNCHANGED <<solveVars, circVars>>

\* def run(data): t, wave = data; the title gets t, the lines get wave
Run ==
    /\ pc = "yielded"
    /\ pc' = "ran"
    /\ shown' = [timed |-> TRUE, t |-> data[1], wave |-> data[2]]
    /\ UNCHANGED <<cutoff, psi, E, coeff, coeffset, norm, raised, out,
                   timestep, num_step, evolution, data>>
    /\ UNCHANGED <<solveVars, circVars>>

\* the while condition fails: the generator is exhausted, the animation ends
EvolveStop ==
    /\ pc \in {"anim", "ran"}
    /\ evolution.cnt >= evolution.num_step
    /\ pc' = "done"
    /\ UNCHANGED <<superVars, solveVars, circVars>>

SuperNext ==
    \/ HarmonicCell
    \/ CoeffCell
    \/ NormTry
    \/ NormDivide
    \/ NormAssertFails
    \/ NormExcept
    \/ NormPrint
    \/ AnimCell
    \/ EvolveNext
    \/ Run
    \/ EvolveStop

SpecSuper == Init /\ [][SuperNext]_vars

(***************************************************************************)
(* HW4_cats_and_qubits.ipynb.  A circuit is its number of qubits and its   *)
(* instructions in the order they were appended.  A state vector is        *)
(* [amp, rad]: the amplitude of basis state b is amp[b] / sqrt(rad), where *)
(* qubit k is bit k of b (qubit 0 is the rightmost character of a          *)
(* bitstring).                                                             *)
(***************************************************************************)
MaxShots == 7      \* shots of one sampler run (1024 in the library)

RECURSIVE Pow2(_)
Pow2(k) == IF k = 0 THEN 1 ELSE 2 * Pow2(k - 1)

Bit(b, k) == (b \div Pow2(k)) % 2
Flip(b, k) == IF Bit(b, k) = 0 THEN b + Pow2(k) ELSE b - Pow2(k)

\* QuantumCircuit(n): every qubit starts in |0>
Zero(n) == [amp |-> [b \in 0 .. (Pow2(n) - 1) |-> IF b = 0 THEN 1 ELSE 0], rad |-> 1]

\* Hadamard on qubit k: |0> -> (|0> + |1>)/sqrt(2), |1> -> (|0> - |1>)/sqrt(2)
ApplyH(st, k) ==
    [amp |-> [b \in DOMAIN st.amp |->
                 IF Bit(b, k) = 0 THEN st.amp[b] + st.amp[Flip(b, k)]
                 ELSE st.amp[Flip(b, k)] - st.amp[b]],
     rad |-> 2 * st.rad]

\* CNOT: inverts the target if and only if the control is 1
ApplyCX(st, c, tg) ==
    [amp |-> [b \in DOMAIN st.amp |->
                 IF Bit(b, c) = 1 THEN st.amp[Flip(b, tg)] ELSE st.amp[b]],
     rad |-> st.rad]

Apply(st, op) ==
    CASE op[1] = "h" -> ApplyH(st, op[2])
      [] op[1] = "cx" -> ApplyCX(st, op[2], op[3])
      [] op[1] = "measure_all" -> st

RECURSIVE RunOps(_, _)
\* the instructions are applied from left to right
RunOps(st, ops) == IF ops = <<>> THEN st ELSE RunOps(Apply(st, Head(ops)), Tail(ops))

StateOf(circ) == RunOps(Zero(circ.n), circ.ops)

\* the probability of measuring basis state b
Prob(st, b) == Rat(st.amp[b] * st.amp[b], st.rad)

\* the bitstring of basis state b of one or two qubits
BitString(b, n) ==
    IF n = 1 THEN (IF b = 0 THEN "0" ELSE "1")
    ELSE CASE b = 0 -> "00" [] b = 1 -> "01" [] b = 2 -> "10" [] b = 3 -> "11"

\* the bitstrings a noiseless run of circ can give
Outcomes(circ) ==
    {BitString(b, circ.n) : b \in {bb \in 0 .. (Pow2(circ.n) - 1) :
                                      Prob(StateOf(circ), bb) # RZero}}

\* qc = QuantumCircuit(1)
Circuit1Cell ==
    /\ pc = "start"
    /\ pc' = "qc1"
    /\ qc' = [n |-> 1, ops |-> <<>>]
    /\ UNCHANGED <<bitstrings, counts, probs, total_prob>>
    /\ UNCHANGED <<solveVars, superVars, noisyVars>>

\* qc.h(0); qc.measure_all()
HMeasureCell ==
    /\ pc = "qc1"
    /\ pc' = "plus"
    /\ qc' = [qc EXCEPT !.ops = @ \o <<<<"h", 0>>, <<"measure_all">>>>]
    /\ UNCHANGED <<bitstrings, counts, probs, total_prob>>
    /\ UNCHANGED <<solveVars, superVars, noisyVars>>

\* result = StatevectorSampler().run([qc]).result(); data = result[0].data;
\* bitstrings = data.meas.get_bitstrings(): one bitstring per shot
SamplerCell ==
    /\ pc = "plus"
    /\ pc' = "sampled"
    /\ bitstrings' \in [1 .. MaxShots -> Outcomes(qc)]
    /\ UNCHANGED <<qc, counts, probs, total_prob>>
    /\ UNCHANGED <<solveVars, superVars, noisyVars>>

\* counts = data.meas.get_counts(): the bitstrings that occurred, counted
CountsCell ==
    /\ pc = "sampled"
    /\ pc' = "counted"
    /\ counts' = [o \in {bitstrings[k] : k \in DOMAIN bitstrings} |->
                     Cardinality({k \in DOMAIN bitstrings : bitstrings[k] = o})]
    /\ UNCHANGED <<qc, bitstrings, probs, total_prob>>
    /\ UNCHANGED <<solveVars, superVars, noisyVars>>

RECURSIVE RSumOver(_, _)
RSumOver(f, S) ==
    IF S = {} THEN RZero
    ELSE LET x == CHOOSE y \in S : TRUE IN RAdd(f[x], RSumOver(f, S \ {x}))

\* for state in counts.keys(): probs[state] = counts[state]/total_counts;
\* total_prob += counts[state]/total_counts
ProbsCell ==
    /\ pc = "counted"
    /\ pc' = "probs"
    /\ probs' = [o \in DOMAIN counts |-> Rat(counts[o], Len(bitstrings))]
    /\ total_prob' = RSumOver(probs', DOMAIN counts)
    /\ UNCHANGED <<qc, bitstrings, counts>>
    /\ UNCHANGED <<solveVars, superVars, noisyVars>>

\* qc = QuantumCircuit(2)
Circuit2Cell ==
    /\ pc = "probs"
    /\ pc' = "qc2"
    /\ qc' = [n |-> 2, ops |-> <<>>]
    /\ UNCHANGED <<bitstrings, counts, probs, total_prob>>
    /\ UNCHANGED <<solveVars, superVars, noisyVars>>

\* qc.h(0)
HCell ==
    /\ pc = "qc2"
    /\ pc' = "h"
    /\ qc' = [qc EXCEPT !.ops = Append(@, <<"h", 0>>)]
    /\ UNCHANGED <<bitstrings, counts, probs, total_prob>>
    /\ UNCHANGED <<solveVars, superVars, noisyVars>>

\* qc.cx(1,0); qc.measure_all()  (control and target exchanged)
CxMeasureCellSwapped ==
    /\ pc = "h"
    /\ pc' = "cat"
    /\ qc' = [qc EXCEPT !.ops = @ \o <<<<"cx", 1, 0>>, <<"measure_all">>>>]
    /\ UNCHANGED <<bitstrings, counts, probs, total_prob>>
    /\ UNCHANGED <<solveVars, superVars, noisyVars>>

\* qc.cx(0,1); qc.measure_all()
CxMeasureCell ==
    /\ pc = "h"
    /\ pc' = "cat"
    /\ qc' = [qc EXCEPT !.ops = @ \o <<<<"cx", 0, 1>>, <<"measure_all">>>>]
    /\ UNCHANGED <<bitstrings, counts, probs, total_prob>>
    /\ UNCHANGED <<solveVars, superVars, noisyVars>>

(***************************************************************************)
(* The noisy-backend cell, statement by statement.  A backend is its name  *)
(* and its basis gate set.  Transpilation rewrites every gate of a circuit *)
(* into basis gates of the backend and records the backend it was done     *)
(* for; measurements are kept.  A job is the circuit handed to run and one *)
(* bitstring per shot; with noise every bitstring can occur.               *)
(***************************************************************************)
MaxNoisyShots == 4      \* shots of one backend.run (1024 in the library)

BasisGates == {"ecr", "id", "rz", "sx", "x"}

FakeSherbrooke == [name |-> "fake_sherbrooke", basis |-> BasisGates]

\* one instruction in basis gates
Decompose(op) ==
    CASE op[1] = "h" -> <<<<"rz", op[2]>>, <<"sx", op[2]>>, <<"rz", op[2]>>>>
      [] op[1] = "cx" -> <<<<"rz", op[2]>>, <<"rz", op[3]>>, <<"sx", op[3]>>,
                           <<"rz", op[3]>>, <<"ecr", op[2], op[3]>>,
                           <<"x", op[2]>>>>
      [] op[1] = "measure_all" -> <<op>>

RECURSIVE DecomposeAll(_)
DecomposeAll(ops) ==
    IF ops = <<>> THEN <<>> ELSE Decompose(Head(ops)) \o DecomposeAll(Tail(ops))

\* transpile(circ, bk)
Transpile(circ, bk) ==
    [n |-> circ.n, ops |-> DecomposeAll(circ.ops), target |-> bk.name]

\* the bitstrings of n measured qubits
BitStrings(n) == {BitString(b, n) : b \in 0 .. (Pow2(n) - 1)}

\* get_counts(): the bitstrings that occurred, counted
CountsOf(shots) ==
    [o \in {shots[k] : k \in DOMAIN shots} |->
        Cardinality({k \in DOMAIN shots : shots[k] = o})]

\* backend = FakeSherbrooke()
BackendStmt ==
    /\ pc = "cat"
    /\ pc' = "backend"
    /\ backend' = FakeSherbrooke
    /\ UNCHANGED <<qc, bitstrings, counts, probs, total_prob>>
    /\ UNCHANGED <<transpiled_circuit, job>>
    /\ UNCHANGED <<solveVars, superVars>>

\* transpiled_circuit = transpile(qc, backend)
TranspileStmt ==
    /\ pc = "backend"
    /\ pc' = "transpiled"
    /\ transpiled_circuit' = Transpile(qc, backend)
    /\ UNCHANGED <<qc, bitstrings, counts, probs, total_prob>>
    /\ UNCHANGED <<backend, job>>
    /\ UNCHANGED <<solveVars, superVars>>

\* job = backend.run(qc)  (the circuit as it was built)
RunStmtUntranspiled ==
    /\ pc = "transpiled"
    /\ pc' = "ran"
    /\ \E shots \in [1 .. MaxNoisyShots -> BitStrings(qc.n)] :
           job' = [backend |-> backend.name, circuit |-> qc, result |-> shots]
    /\ UNCHANGED <<qc, bitstrings, counts, probs, total_prob>>
    /\ UNCHANGED <<backend, transpiled_circuit>>
    /\ UNCHANGED <<solveVars, superVars>>

\* job = backend.run(transpiled_circuit)
RunStmt ==
    /\ pc = "transpiled"
    /\ pc' = "ran"
    /\ \E shots \in [1 .. MaxNoisyShots -> BitStrings(transpiled_circuit.n)] :
           job' = [backend |-> backend.name, circuit |-> transpiled_circuit,
                   result |-> shots]
    /\ UNCHANGED <<qc, bitstrings, counts, probs, total_prob>>
    /\ UNCHANGED <<backend, transpiled_circuit>>
    /\ UNCHANGED <<solveVars, superVars>>

\* counts = job.result().get_counts(); print; plot_histogram(counts)
NoisyCountsStmt ==
    /\ pc = "ran"
    /\ pc' = "noisy"
    /\ counts' = CountsOf(job.result)
    /\ UNCHANGED <<qc, bitstrings, probs, total_prob>>
    /\ UNCHANGED <<backend, transpiled_circuit, job>>
    /\ UNCHANGED <<solveVars, superVars>>

CircNext ==
    \/ Circuit1Cell
    \/ HMeasureCell
    \/ SamplerCell
    \/ CountsCell
    \/ ProbsCell
    \/ Circuit2Cell
    \/ HCell
    \/ CxMeasureCell
    \/ BackendStmt
    \/ TranspileStmt
    \/ RunStmt
    \/ NoisyCountsStmt

SpecCircuit == Init /\ [][CircNext]_vars

(***************************************************************************)
(* Claims about the two solve cells.                                       *)
(***************************************************************************)
HamiltonianBuilt ==
    pc \in {"ham", "eig", "sorted", "density", "barrier", "harmonic"}

Sorted ==
    \/ pc \in {"sorted", "density", "barrier"}
    \/ pc = "harmonic" /\ vals # Unset

InBarrier(x) ==
    /\ RLe(RNeg(RDiv(RInt(w), RInt(2))), x)
    /\ RLe(x, RDiv(RInt(w), RInt(2)))

\* C4: in both solve cells H is the N x N finite-difference matrix:
\* H[i][i] = -2*t + q*V(X[i]), H[i][i+1] = H[i+1][i] = t with
\* t = -eta^2/(2*m*a^2), every other entry 0; so H is symmetric and
\* tridiagonal.
C4_Hamiltonian ==
    HamiltonianBuilt =>
        /\ DOMAIN H = Idx(N)
        /\ RMul(t, RMul(RInt(2 * m), RMul(a, a))) = RInt(-(eta * eta))
        /\ \A i \in Idx(N) :
              /\ DOMAIN H[i] = Idx(N)
              /\ \A j \in Idx(N) :
                    /\ i = j =>
                          H[i][j] = RAdd(RMul(RInt(-2), t),
                                         RMul(RInt(q), V(X)[i]))
                    /\ (j = i + 1 \/ i = j + 1) => H[i][j] = t
                    /\ (j > i + 1 \/ i > j + 1) => H[i][j] = RZero
                    /\ H[i][j] = H[j][i]

\* the harmonic cell has built H on a grid of three points or more
C4_Witness ==
    /\ pc = "harmonic"
    /\ N >= 3
    /\ H[0][2] = RZero /\ H[0][1] = t /\ H[0][0] # H[1][1]

\* C5: after the sorting step the eigenvalues are in non-decreasing order,
\* index 0 holds the lowest one and index k the (k+1)-th smallest of the
\* eigenvalues the solver returned.
C5_SortedEigenvalues ==
    Sorted =>
        /\ \A i \in Idx(N - 1) : RLe(vals[i], vals[i + 1])
        /\ \A k \in Idx(N) :
              /\ Cardinality({j \in Idx(N) : RLt(eigret.vals[j], vals[k])}) <= k
              /\ Cardinality({j \in Idx(N) : RLe(eigret.vals[j], vals[k])}) >= k + 1

\* the solver returned the eigenvalues out of order and the cell sorted them
C5_Witness ==
    /\ pc = "sorted"
    /\ N >= 3
    /\ RLt(eigret.vals[1], eigret.vals[0])
    /\ RLt(eigret.vals[2], eigret.vals[1])

\* C6: the sort keeps the pairs together: one permutation takes the pairs
\* (eigenvalue, eigenvector column) the solver returned to the pairs
\* (vals[i], row vecs[i]), each row being the column divided by sqrt(a); and
\* every row is an eigenvector of H for the eigenvalue at its index.
C6_PairsKept ==
    Sorted =>
        /\ \E order \in Perms(N) : \A i \in Idx(N) :
              /\ vals[i] = eigret.vals[order[i]]
              /\ \A x \in Idx(N) :
                    SEq(vecs[i][x], SDivSqrt(eigret.vecs[x][order[i]], a))
        /\ \A i \in Idx(N) : \A x \in Idx(N) :
              MatVec(H, [y \in Idx(N) |-> vecs[i][y][1]], N)[x]
                  = RMul(vals[i], RInt(vecs[i][x][1]))

\* three pairs came back in another order than the sorted one
C6_Witness ==
    /\ pc = "sorted"
    /\ N >= 3
    /\ vals[0] = eigret.vals[2]
    /\ vals[1] = eigret.vals[0]

\* C8: the barrier V returns an array as long as x, 0.05 exactly at the
\* points with |x| <= w/2 and 0 elsewhere, so the mask B selects exactly
\* the grid points with -w/2 <= x <= w/2.
C8_BarrierMask ==
    /\ (Vdef = "barrier" /\ X # Unset) =>
          /\ DOMAIN V(X) = DOMAIN X
          /\ \A j \in DOMAIN X :
                V(X)[j] = IF InBarrier(X[j]) THEN BarrierHeight ELSE RZero
    /\ pc = "barrier" =>
          /\ DOMAIN B = Idx(N)
          /\ \A j \in Idx(N) : B[j] <=> InBarrier(X[j])

\* the mask was computed on a grid with points inside and outside the barrier
C8_Witness ==
    /\ pc = "barrier"
    /\ \E j \in Idx(N) : B[j]
    /\ \E j \in Idx(N) : ~B[j]

\* C9: every p[i] = |vecs[i]|^2 is normalized on the grid,
\* a * sum_x p[i][x] = 1, and the barrier probability lies in [0, 1].
C9_Normalized ==
    /\ pc \in {"density", "barrier"} =>
          \A i \in Idx(N) :
              /\ \A x \in Idx(N) : p[i][x] = SAbsSq(vecs[i][x])
              /\ RMul(a, RSum(p[i], N)) = ROne
    /\ pc = "barrier" =>
          /\ DOMAIN barrier = Idx(N)
          /\ \A i \in Idx(N) :
                RLe(RZero, barrier[i]) /\ RLe(barrier[i], ROne)

\* a level whose probability of being in the barrier is strictly between 0 and 1
C9_Witness ==
    /\ pc = "barrier"
    /\ a # ROne
    /\ \E i \in Idx(N) : RLt(RZero, barrier[i]) /\ RLt(barrier[i], ROne)

(***************************************************************************)
(* Claims about the superposition section.                                 *)
(***************************************************************************)
ProblemN == 300
ProblemL == 100

AllZero(c) == \A i \in DOMAIN c : c[i][1] = <<0, 0>>

SumAbsSq(c) ==
    RSum([i \in Idx(ALen(c)) |-> RDiv(RInt(CAbsSq(c[i][1])), c[i][2])], ALen(c))

AfterNormalizeCell == pc \in {"normalized", "anim", "yielded", "ran", "done"}

\* C1: every pair (t, wave) that evolve yields has wave equal to the
\* superposition evolved to that same time t:
\* wave = sum_n coeff[n] * exp(-i*E[n]*t/eta) * psi[n].
C1_WaveAtYieldedTime ==
    data # Unset =>
        data[2] = MatMul(EvolveCoeff(coeff, E, eta, data[1]), psi)

\* C2: when every entry of coeff is zero the assertion fails, the
\* AssertionError is caught in the cell, the message is printed exactly
\* once, coeff is left as it was (no division), no exception leaves the cell
\* and the final print of the coefficients still runs.
C2_ZeroNormCaught ==
    (coeffset # Unset /\ AllZero(coeffset)) =>
        /\ coeff = coeffset
        /\ pc # "divided"
        /\ pc # "coeff" => norm = RZero
        /\ (raised = "AssertionError") <=> (pc = "raised")
        /\ pc \in {"coeff", "norm", "raised"} => out = <<>>
        /\ pc = "caught" => out = <<ErrMsg>>
        /\ AfterNormalizeCell =>
              /\ out = <<ErrMsg, <<"Coeffients:", coeffset>>>>
              /\ raised = "none"

\* the cell has run to its end on two zero coefficients
C2_Witness ==
    /\ pc = "normalized"
    /\ cutoff >= 2
    /\ AllZero(coeffset)
    /\ Len(out) = 2

\* C3: after the normalization cell has run on a coeff that is not all
\* zero, sum_m |coeff[m]|^2 = 1 and each coefficient is its original value
\* divided by the square root of the original sum of squared moduli.
C3_UnitNorm ==
    (coeffset # Unset /\ ~AllZero(coeffset)) =>
        /\ pc \notin {"raised", "caught"}
        /\ (pc = "divided" \/ AfterNormalizeCell) =>
              /\ SumAbsSq(coeff) = ROne
              /\ \A i \in Idx(cutoff) :
                    /\ coeff[i][1] = coeffset[i][1]
                    /\ coeff[i][2] = RMul(coeffset[i][2], SumAbsSq(coeffset))
              /\ out \in {<<>>, <<<<"Coeffients:", coeff>>>>}

\* the cell has normalized i*phi_0 - 2*phi_1, whose norm is not 1
C3_Witness ==
    /\ pc = "normalized"
    /\ cutoff >= 2
    /\ coeffset[0][1] = <<0, 1>>
    /\ coeffset[1][1] = <<-2, 0>>
    /\ coeff[1] = <<<<-2, 0>>, <<5, 1>>>>

\* C7: the harmonic solve uses the parameters Problems 3 and 4 state:
\* eta = 1, m = 1, q = 1, N = 300 and L = 100, so that the grid spacing
\* a = L/(N-1) is about 1/3 (here: within 1/100 of it).
C7_HarmonicParameters ==
    pc # "start" =>
        /\ N = ProblemN /\ L = ProblemL
        /\ eta = 1 /\ m = 1 /\ q = 1
        /\ a = RDiv(RInt(L), RInt(N - 1))
        /\ RLe(RAbs(RSub(a, <<1, 3>>)), <<1, 100>>)

(***************************************************************************)
(* Claims about the two-qubit circuit.                                     *)
(***************************************************************************)
\* C10: from both qubits in |0>, the circuit H on qubit 0, CX with control
\* 0 and target 1, measurement of all qubits, in that order, leaves a state
\* whose only outcomes are 00 and 11: 01 and 10 have zero amplitude and 00
\* and 11 have equal probability.
C10_CatState ==
    pc = "cat" =>
        /\ qc.n = 2
        /\ qc.ops = <<<<"h", 0>>, <<"cx", 0, 1>>, <<"measure_all">>>>
        /\ StateOf(qc).amp[1] = 0
        /\ StateOf(qc).amp[2] = 0
        /\ Prob(StateOf(qc), 0) = Prob(StateOf(qc), 3)
        /\ Prob(StateOf(qc), 0) = <<1, 2>>
        /\ Outcomes(qc) = {"00", "11"}

\* the two-qubit circuit is complete, the Hadamard having put qubit 0 in
\* superposition before the CX
C10_Witness ==
    /\ pc = "cat"
    /\ Len(qc.ops) = 3
    /\ Outcomes([n |-> 2, ops |-> SubSeq(qc.ops, 1, 1)]) = {"00", "01"}

\* C11: in the noisy-backend cell the circuit is complete before it is
\* transpiled and is transpiled for the FakeSherbrooke backend before
\* anything is run; the circuit given to backend.run is the transpiled one
\* and never qc; counts is assigned in this cell only from the result of
\* that run.
C11_TranspileThenRun ==
    /\ [](transpiled_circuit # Unset =>
            /\ backend = FakeSherbrooke
            /\ qc.ops = <<<<"h", 0>>, <<"cx", 0, 1>>, <<"measure_all">>>>
            /\ transpiled_circuit = Transpile(qc, backend)
            /\ transpiled_circuit.target = backend.name)
    /\ [](job # Unset =>
            /\ transpiled_circuit # Unset
            /\ job.circuit = transpiled_circuit
            /\ job.circuit # qc
            /\ job.backend = backend.name)
    /\ [](pc = "noisy" => job # Unset /\ counts = CountsOf(job.result))
    /\ [][job' # job => pc = "transpiled" /\ job = Unset]_vars
    /\ [][transpiled_circuit' # transpiled_circuit => job = Unset]_vars
    /\ [][(pc \in {"cat", "backend", "transpiled", "ran"} /\ counts' # counts)
            => job # Unset /\ counts' = CountsOf(job.result)]_vars

\* the cell has run to its end, the run was given a circuit of basis gates
\* only, and noise produced an outcome the ideal circuit cannot give
C11_Witness ==
    /\ pc = "noisy"
    /\ job.circuit = transpiled_circuit
    /\ \A k \in DOMAIN job.circuit.ops :
           job.circuit.ops[k][1] \in backend.basis \cup {"measure_all"}
    /\ \E k \in DOMAIN qc.ops : qc.ops[k][1] \notin backend.basis \cup {"measure_all"}
    /\ "01" \in DOMAIN counts
    /\ "01" \notin Outcomes(qc)

=============================================================================
